---- MODULE Spec2Model ----
(***************************************************************************)
(* cargo-sdl-apk: the project-assembly and signing pipeline of             *)
(* src/src/android_project.rs (build_android_project, create_android_      *)
(* project, sign_android) and the text functions it uses on project files. *)
(*                                                                         *)
(* Text is a sequence of tokens.  Every token is a fixed string; the       *)
(* literals the code searches for ("<manifest", ">", "</manifest>",        *)
(* "org.libsdl.app", "SDLActivity", "Game", ".") are each a token or a     *)
(* run of tokens, and no other token contains one of them, so searching    *)
(* the token sequence is searching the text.                               *)
(***************************************************************************)
EXTENDS Naturals, Integers, Sequences, FiniteSets, TLC

VARIABLES
  \* ---- the environment: files outside the workspace
  meta,          \* the metadata document (Cargo.toml), package.metadata.android
  template,      \* $SDL/android-project: its three project files
  \* ---- the project workspace target/android-project (kept across runs)
  copied,        \* the template tree has been copied at least once
  files,         \* AndroidManifest.xml, build.gradle, strings.xml: name -> text
  javaFiles,     \* app/src/main/java/<path>/MainActivity.java: path -> text
  jniSrc,        \* app/jni/src exists
  jniSDL,        \* app/jni/SDL exists (as a directory, through the link)
  jniLibs,       \* app/src/main/jniLibs/<arch>/libmain.so: arch -> bytes
  icons,         \* mipmap-<b>dpi/ic_launcher.png: bucket -> holds the app icon
  keystore,      \* app/build/outputs/apk/release/app-release.jks exists
  \* ---- one call of build_android_project
  pc,            \* the statement the call is at
  args,          \* target_artifacts, profile, ks_file, ks_pass
  loc,           \* the call's locals
  log,           \* what the call has done so far, in order
  runs,          \* calls made so far
  firstFiles,    \* the project files as the first completed templating left them
  \* ---- the manifest text functions on their own
  mdoc,          \* a manifest document
  mparts,        \* how the document was put together
  mhist,         \* the operations applied to it, in order
  mops,          \* items put into its body so far: generated, and one per operation
  \* ---- one call of build_sdl_for_android
  sdl            \* its position, arguments, log and the deps directories

envVars  == <<meta, template>>
wsVars   == <<copied, files, javaFiles, jniSrc, jniSDL, jniLibs, icons, keystore>>
callVars == <<pc, args, loc, log, runs, firstFiles>>
sideVars == <<mdoc, mparts, mhist, mops, sdl>>
vars     == <<envVars, wsVars, callVars, sideVars>>

----------------------------------------------------------------------------
(* Bounds *)

MaxRuns         == 2   \* calls of build_android_project on one workspace
MaxTargets      == 2   \* entries of a Target Artifact Set
MaxIconFailures == 1   \* icon copies that fail in one call
MaxSize         == 3   \* items of a generated manifest body, those inserted included

----------------------------------------------------------------------------
(* Text *)

LM  == "<manifest"
LCM == "</manifest"
GT  == ">"
LF  == "LF"
DOT == "."
SLASH == "/"

StartsWith(s, p) == Len(p) <= Len(s) /\ SubSeq(s, 1, Len(p)) = p

\* str::contains
Contains(s, sub) ==
  \E i \in 1..(Len(s) + 1) : i + Len(sub) - 1 <= Len(s) /\ SubSeq(s, i, i + Len(sub) - 1) = sub

\* occurrences of sub in s (start positions)
Occurrences(s, sub) ==
  {i \in 1..Len(s) : i + Len(sub) - 1 <= Len(s) /\ SubSeq(s, i, i + Len(sub) - 1) = sub}

\* str::replace(s, from, to): every non-overlapping occurrence, left to right;
\* the replacement text is not searched again.
RECURSIVE Replace(_, _, _)
Replace(s, from, to) ==
  IF Len(s) < Len(from) \/ from = <<>> THEN s
  ELSE IF StartsWith(s, from)
       THEN to \o Replace(SubSeq(s, Len(from) + 1, Len(s)), from, to)
       ELSE <<Head(s)>> \o Replace(Tail(s), from, to)

\* char::to_uppercase on the letters used in permission names
UpperChar(c) ==
  CASE c = "n" -> "N"
    [] c = "c" -> "C"
    [] OTHER -> c

\* str::to_uppercase
to_uppercase(s) == [i \in 1..Len(s) |-> UpperChar(s[i])]

SetMin(S) == CHOOSE x \in S : \A y \in S : x <= y
SetMax(S) == CHOOSE x \in S : \A y \in S : y <= x

----------------------------------------------------------------------------
(* The manifest pattern and permission insertion *)

\* "</manifest>" starts at k
ClosesAt(doc, k) == k + 1 <= Len(doc) /\ doc[k] = LCM /\ doc[k + 1] = GT

\* where the last "</manifest>" starts (0: nowhere)
LastClose(doc) ==
  LET ks == {k \in 1..Len(doc) : ClosesAt(doc, k)}
  IN  IF ks = {} THEN 0 ELSE SetMax(ks)

\* Where "<manifest.*?>" begun at i can end with "(.*)</manifest>" still to
\* follow: at a ">" after i that has a "</manifest>" after it.
OpenEnds(doc, i) == {j \in (i + 1)..(LastClose(doc) - 1) : doc[j] = GT}

OpenEndGreedy(doc, i) == SetMax(OpenEnds(doc, i))

\* ".*?" is lazy: the first of them
OpenEnd(doc, i) == SetMin(OpenEnds(doc, i))

\* MANIFEST_TAG_CONTENT_REGEX.captures(doc).get(1): the leftmost "<manifest"
\* that can match, the shortest ".*?>" after it, then "(.*)" up to the last
\* "</manifest>".  from..to-1 is the captured span; to is content_match.end().
ManifestCapture(doc) ==
  LET starts == {i \in 1..Len(doc) : doc[i] = LM /\ OpenEnds(doc, i) # {}}
  IN  IF starts = {} THEN [found |-> FALSE, from |-> 0, to |-> 0]
      ELSE [found |-> TRUE, from |-> OpenEnd(doc, SetMin(starts)) + 1, to |-> LastClose(doc)]

CaptureText(doc) ==
  LET m == ManifestCapture(doc) IN SubSeq(doc, m.from, m.to - 1)

\* String::insert_str(at, text), at being the position of the token the text
\* is put before
insert_str(doc, at, text) ==
  SubSeq(doc, 1, at - 1) \o text \o SubSeq(doc, at, Len(doc))

UP == "<uses-permission android:name=\"android.permission."
QS == "\"/"

PermissionEntryAsGiven(permission) == <<UP>> \o permission \o <<QS, GT>>

\* format!("<uses-permission android:name=\"android.permission.{}\"/>", upper)
PermissionEntry(permission) == <<UP>> \o to_uppercase(permission) \o <<QS, GT>>

AddAlways(doc, permission) ==
  LET m == ManifestCapture(doc)
  IN  IF ~m.found THEN [fatal |-> TRUE, wrote |-> FALSE, doc |-> doc]
      ELSE [fatal |-> FALSE, wrote |-> TRUE,
            doc |-> insert_str(doc, m.to, PermissionEntry(permission))]

\* add_uses_permission_entry on the manifest's text: fatal when the pattern
\* does not match, no write when the entry is in the captured content, else the
\* entry is inserted at the end of the capture and the file written.
add_uses_permission_entry(doc, permission) ==
  LET m == ManifestCapture(doc)
      entry == PermissionEntry(permission)
  IN  IF ~m.found THEN [fatal |-> TRUE, wrote |-> FALSE, doc |-> doc]
      ELSE IF Contains(CaptureText(doc), entry)
           THEN [fatal |-> FALSE, wrote |-> FALSE, doc |-> doc]
           ELSE [fatal |-> FALSE, wrote |-> TRUE, doc |-> insert_str(doc, m.to, entry)]

----------------------------------------------------------------------------
(* Values *)

None(v) == [some |-> FALSE, v |-> v]
Some(v) == [some |-> TRUE, v |-> v]

\* Option::unwrap_or
unwrap_or(o, default) == IF o.some THEN o.v ELSE default

Profiles == {"Debug", "Release"}

\* The targets of the mapping table, and identifiers outside it
TableTargets ==
  {"aarch64-linux-android", "armv7-linux-androideabi", "i686-linux-android",
   "x86_64-linux-android"}
OtherTargets == {"riscv64-linux-android", "x86_64", "aarch64-linux-android ", ""}
\* The targets a call's Target Artifact Set is drawn from
TargetIds == {"aarch64-linux-android", "x86_64-linux-android", "riscv64-linux-android"}

Panic == "PANIC"

GuessTargetName(rust_target_name) ==
  CASE rust_target_name = "aarch64-linux-android" -> "arm64-v8a"
    [] rust_target_name = "armv7-linux-androideabi" -> "armeabi-v7a"
    [] rust_target_name = "i686-linux-android" -> "x86"
    [] OTHER -> "x86_64"

get_target_android_name(rust_target_name) ==
  CASE rust_target_name = "aarch64-linux-android" -> "arm64-v8a"
    [] rust_target_name = "armv7-linux-androideabi" -> "armeabi-v7a"
    [] rust_target_name = "i686-linux-android" -> "x86"
    [] rust_target_name = "x86_64-linux-android" -> "x86_64"
    [] OTHER -> Panic

DefaultAppId == <<"org", DOT, "libsdl", DOT, "app">>
DefaultTitle == <<"Untitled">>

AppIds ==
  {<<"com", DOT, "example", DOT, "app">>, <<"org", DOT, "libsdl", DOT, "app", DOT, "x">>}
Titles == {<<"My", " ", "Game">>}
PermissionLists == {<<<<"n">>, <<"N">>>>}

MetaDocs ==
  [package_name : {None(<<>>)} \cup {Some(a) : a \in AppIds},
   title        : {None(<<>>)} \cup {Some(t) : t \in Titles},
   icon         : {None(""), Some("icon.png")},
   permissions  : {None(<<>>)} \cup {Some(p) : p \in PermissionLists}]

\* get_android_app_id
get_android_app_id(m) == unwrap_or(m.package_name, DefaultAppId)

\* $SDL/android-project, cut to what the code searches for
SDLManifest ==
  <<"<?xml?", GT, LF,
    LM, " package=\"", "org", DOT, "libsdl", DOT, "app", "\"", LF, " xmlns:android", GT, LF,
    "<activity android:name=\"", "SDLActivity", "\"", GT, "</activity", GT, LF,
    LCM, GT, LF>>
\* a manifest whose root element is not closed
OpenManifest ==
  <<LM, " package=\"", "org", DOT, "libsdl", DOT, "app", "\"", GT, LF,
    "<activity android:name=\"", "SDLActivity", "\"", GT, LF>>
SDLGradle  == <<"applicationId \"", "org", DOT, "libsdl", DOT, "app", "\"", LF>>
SDLStrings == <<"<string name=\"app_name\"", GT, "Game", "</string", GT, LF>>

Templates ==
  {[manifest |-> m, gradle |-> SDLGradle, strings |-> SDLStrings] :
     m \in {SDLManifest, OpenManifest}}

NoFiles == [manifest |-> <<>>, gradle |-> <<>>, strings |-> <<>>]

Buckets == <<"m", "h", "xh", "xxh", "xxxh">>

ConventionalKeystore == "target/android-project/app/build/outputs/apk/release/app-release.jks"
KeystorePaths == {"my.jks"}
KeystorePasswords == {"pass:secret"}

\* Names of build-tools entries, as the bytes of their text ('.' is 46, '0' is 48)
V28 == <<50, 56, 46, 48, 46, 48>>
V29 == <<50, 57, 46, 48, 46, 50>>
V30 == <<51, 48, 46, 48, 46, 51>>
V9  == <<57, 46, 48, 46, 48>>
NoVersion == <<>>
Listings == {{}, {V30}, {V29, V30, V28}, {V30, V9}}

TargetSets == {T \in SUBSET TargetIds : Cardinality(T) <= MaxTargets}

Calls ==
  [targets : TargetSets, profile : Profiles,
   ks_file : {"none"} \cup KeystorePaths, ks_pass : {"none"} \cup KeystorePasswords]

EmptyFn == [x \in {} |-> 0]

NoCall == [targets |-> {}, profile |-> "Debug", ks_file |-> "none", ks_pass |-> "none"]

NoLocals ==
  [appid |-> <<>>, appname |-> <<>>, app_icon |-> None(""), i |-> 0, todo |-> {},
   bucket |-> 0, iconFailures |-> 0, tools_version |-> NoVersion,
   key_file |-> "none", key_pass |-> "none", panic |-> "none",
   \* the workspace as the call found it (not read by the code)
   libsBefore |-> EmptyFn, keystoreBefore |-> FALSE, sdlBefore |-> FALSE]

Event(op, a, b, ok) == [op |-> op, a |-> a, b |-> b, ok |-> ok, tool |-> NoVersion]

\* the invocation of $ANDROID_HOME/build-tools/<version>/<op>
ToolEvent(op, version, a, b, ok) == [op |-> op, a |-> a, b |-> b, ok |-> ok, tool |-> version]

----------------------------------------------------------------------------
(* create_android_project *)

Fail(msg) ==
  /\ pc' = "panic"
  /\ loc' = [loc EXCEPT !.panic = msg]

Permissions(m) == unwrap_or(m.permissions, <<>>)

\* The call: a Target Artifact Set, a profile, and the keystore options
BuildAndroidProject ==
  /\ pc \in {"idle", "done", "panic"}
  /\ runs < MaxRuns
  /\ \E call \in Calls : args' = call
  /\ runs' = runs + 1
  /\ loc' = [NoLocals EXCEPT !.libsBefore = jniLibs, !.keystoreBefore = keystore,
                              !.sdlBefore = jniSDL]
  /\ log' = <<>>
  /\ pc' = "resolve"
  /\ UNCHANGED <<envVars, wsVars, firstFiles, sideVars>>

ResolveIdentity ==
  /\ pc = "resolve"
  /\ loc' = [loc EXCEPT !.appid = get_android_app_id(meta),
                        !.appname = unwrap_or(meta.title, DefaultTitle),
                        !.app_icon = meta.icon]
  /\ pc' = "copy"
  /\ UNCHANGED <<envVars, wsVars, args, log, runs, firstFiles, sideVars>>

CopySkippingExisting(present, existing, tmpl) == IF present THEN existing ELSE tmpl

\* copy_items with overwrite(true): the project files are the template's again
CopyItems(present, existing, tmpl) == tmpl

CopyTemplate ==
  /\ pc = "copy"
  /\ \E ok \in BOOLEAN :
       /\ log' = Append(log, Event("copy_template", "", "", ok))
       /\ IF ok
          THEN /\ copied' = TRUE
               /\ files' = CopyItems(copied, files, template)
               /\ jniSrc' = TRUE
               /\ icons' = [b \in DOMAIN icons |-> "template"]
               /\ pc' = "main_class"
               /\ UNCHANGED loc
          ELSE /\ Fail("copy_items")
               /\ UNCHANGED <<copied, files, jniSrc, icons>>
  /\ UNCHANGED <<envVars, javaFiles, jniSDL, jniLibs, keystore, args, runs,
                 firstFiles, sideVars>>

MainClassTemplate ==
  <<"package ", "$APP", ";", LF, "import ", "org", DOT, "libsdl", DOT, "app", DOT,
    "SDLActivity", ";", LF, "public class MainActivity extends SDLActivity {}">>

JavaMainFolder(appid) == Replace(appid, <<DOT>>, <<SLASH>>)

WriteMainActivity ==
  /\ pc = "main_class"
  /\ javaFiles' = (JavaMainFolder(loc.appid) :> Replace(MainClassTemplate, <<"$APP">>, loc.appid))
                    @@ javaFiles
  /\ log' = Append(log, Event("write_main", "", "", TRUE))
  /\ pc' = "change_manifest"
  /\ UNCHANGED <<envVars, copied, files, jniSrc, jniSDL, jniLibs, icons, keystore,
                 args, loc, runs, firstFiles, sideVars>>

ChangeFirstOnly(content, replacements) ==
  IF replacements = <<>> THEN content
  ELSE Replace(content, Head(replacements)[1], Head(replacements)[2])

\* change_android_project_file on the file's text: the replacements in order
RECURSIVE change_android_project_file(_, _)
change_android_project_file(content, replacements) ==
  IF replacements = <<>> THEN content
  ELSE change_android_project_file(
         Replace(content, Head(replacements)[1], Head(replacements)[2]), Tail(replacements))

ChangeFile(at, name, replacements, next) ==
  /\ pc = at
  /\ files' = [files EXCEPT ![name] = change_android_project_file(@, replacements)]
  /\ log' = Append(log, Event("change_file", name, "", TRUE))
  /\ pc' = next
  /\ loc' = [loc EXCEPT !.i = 0]
  /\ UNCHANGED <<envVars, copied, javaFiles, jniSrc, jniSDL, jniLibs, icons, keystore,
                 args, runs, firstFiles, sideVars>>

ChangeManifest ==
  ChangeFile("change_manifest", "manifest",
             <<<<<<"SDLActivity">>, <<"MainActivity">>>>, <<DefaultAppId, loc.appid>>>>,
             "change_gradle")

ChangeGradle ==
  ChangeFile("change_gradle", "gradle", <<<<DefaultAppId, loc.appid>>>>, "change_strings")

ChangeStrings ==
  ChangeFile("change_strings", "strings", <<<<<<"Game">>, loc.appname>>>>, "permissions")

\* One turn of the permission loop
AddPermission ==
  /\ pc = "permissions"
  /\ loc.i < Len(Permissions(meta))
  /\ LET permission == Permissions(meta)[loc.i + 1]
         r == add_uses_permission_entry(files.manifest, permission)
     IN  IF r.fatal
         THEN /\ Fail("can't find manifest tag content")
              /\ log' = Append(log, Event("add_permission", "", "fatal", FALSE))
              /\ UNCHANGED files
         ELSE /\ files' = [files EXCEPT !.manifest = r.doc]
              /\ log' = Append(log, Event("add_permission", "",
                                          IF r.wrote THEN "inserted" ELSE "present", TRUE))
              /\ loc' = [loc EXCEPT !.i = @ + 1]
              /\ pc' = "permissions"
  /\ UNCHANGED <<envVars, copied, javaFiles, jniSrc, jniSDL, jniLibs, icons, keystore,
                 args, runs, firstFiles, sideVars>>

RemoveCSources ==
  /\ pc = "permissions"
  /\ loc.i = Len(Permissions(meta))
  /\ jniSrc' = FALSE
  /\ log' = Append(log, Event("remove_src", "", "", TRUE))
  /\ firstFiles' = IF firstFiles.set THEN firstFiles
                   ELSE [set |-> TRUE, run |-> runs, files |-> files]
  /\ pc' = "link"
  /\ UNCHANGED <<envVars, copied, files, javaFiles, jniSDL, jniLibs, icons, keystore,
                 args, loc, runs, sideVars>>

LinkAlways(is_dir) == TRUE

\* if !(.../app/jni/SDL).is_dir()
ShouldLink(is_dir) == ~is_dir

LinkSDL ==
  /\ pc = "link"
  /\ IF ShouldLink(jniSDL)
     THEN \E ok \in (IF jniSDL THEN {FALSE} ELSE BOOLEAN) :
            /\ log' = Append(log, Event("symlink", "", "", ok))
            /\ IF ok
               THEN /\ jniSDL' = TRUE
                    /\ loc' = [loc EXCEPT !.todo = args.targets]
                    /\ pc' = "artifacts"
               ELSE /\ Fail("symlink_dir")
                    /\ UNCHANGED jniSDL
     ELSE /\ loc' = [loc EXCEPT !.todo = args.targets]
          /\ pc' = "artifacts"
          /\ UNCHANGED <<jniSDL, log>>
  /\ UNCHANGED <<envVars, copied, files, javaFiles, jniSrc, jniLibs, icons, keystore,
                 args, runs, firstFiles, sideVars>>

\* The bytes of the artifact the caller built for a target in this call
Artifact(target) == [target |-> target, build |-> runs]

PlacedAlone(libs, name, bytes) == (name :> bytes)

\* create_dir_all(jniLibs/<name>); copy(artifact, jniLibs/<name>/libmain.so)
Placed(libs, name, bytes) == (name :> bytes) @@ libs

\* One turn of the artifact loop; a HashMap yields its entries in any order
PlaceArtifact ==
  /\ pc = "artifacts"
  /\ loc.todo # {}
  /\ \E target \in loc.todo :
       LET target_android_name == get_target_android_name(target)
       IN  IF target_android_name = Panic
           THEN /\ Fail("Unknown target")
                /\ log' = Append(log, Event("map_target", target, Panic, FALSE))
                /\ UNCHANGED jniLibs
           ELSE \E ok \in BOOLEAN :
                  /\ log' = Append(log, Event("place", target, target_android_name, ok))
                  /\ IF ok
                     THEN /\ jniLibs' = Placed(jniLibs, target_android_name, Artifact(target))
                          /\ loc' = [loc EXCEPT !.todo = @ \ {target}]
                          /\ pc' = "artifacts"
                     ELSE /\ Fail("copy artifact")
                          /\ UNCHANGED jniLibs
  /\ UNCHANGED <<envVars, copied, files, javaFiles, jniSrc, jniSDL, icons, keystore,
                 args, runs, firstFiles, sideVars>>

AfterIconCopyChecked(ok) == IF ok THEN "artifacts" ELSE "panic"

\* if let Err(e) = copy(..) { eprintln!(..) }: the loop goes on either way
AfterIconCopy(ok) == "artifacts"

\* One turn of the icon loop: a failed copy is reported and the loop goes on
CopyIcon ==
  /\ pc = "artifacts"
  /\ loc.todo = {}
  /\ loc.app_icon.some
  /\ loc.bucket < Len(Buckets)
  /\ \E ok \in BOOLEAN :
       /\ ~ok => loc.iconFailures < MaxIconFailures
       /\ icons' = IF ok THEN [icons EXCEPT ![Buckets[loc.bucket + 1]] = "app"] ELSE icons
       /\ log' = Append(log, Event("icon", Buckets[loc.bucket + 1], "", ok))
       /\ loc' = [loc EXCEPT !.bucket = @ + 1,
                             !.iconFailures = IF ok THEN @ ELSE @ + 1]
       /\ pc' = AfterIconCopy(ok)
  /\ UNCHANGED <<envVars, copied, files, javaFiles, jniSrc, jniSDL, jniLibs,
                 keystore, args, runs, firstFiles, sideVars>>

----------------------------------------------------------------------------
(* build_android_project: the build tool, then sign_android for a release *)

GradleTask(profile) == IF profile = "Debug" THEN "assembleDebug" ELSE "assembleRelease"

SignAlways(profile) == TRUE

\* matches!(profile, BuildProfile::Release)
SignsAfterBuild(profile) == profile = "Release"

AfterGradleUnchecked(ok, profile) == IF SignsAfterBuild(profile) THEN "sign" ELSE "done"

\* assert!(... .success()) after gradlew, then sign_android for a release
AfterGradle(ok, profile) ==
  IF ~ok THEN "panic" ELSE IF SignsAfterBuild(profile) THEN "sign" ELSE "done"

IconsSkipped(app_icon, bucket) == TRUE

\* create_android_project has returned: no icon configured, or the loop over
\* the buckets is through
IconsDone(app_icon, bucket) == ~app_icon.some \/ bucket = Len(Buckets)

RunGradle ==
  /\ pc = "artifacts"
  /\ loc.todo = {}
  /\ IconsDone(loc.app_icon, loc.bucket)
  /\ \E ok \in BOOLEAN :
       /\ log' = Append(log, Event("gradlew", GradleTask(args.profile), "", ok))
       /\ pc' = AfterGradle(ok, args.profile)
       /\ loc' = IF AfterGradle(ok, args.profile) = "panic"
                 THEN [loc EXCEPT !.panic = "gradlew"] ELSE loc
  /\ UNCHANGED <<envVars, copied, files, javaFiles, jniSrc, jniSDL, jniLibs, icons,
                 keystore, args, runs, firstFiles, sideVars>>

\* String's order: byte by byte, a proper prefix first
RECURSIVE LexLess(_, _)
LexLess(a, b) ==
  IF b = <<>> THEN FALSE
  ELSE IF a = <<>> THEN TRUE
  ELSE IF Head(a) # Head(b) THEN Head(a) < Head(b)
  ELSE LexLess(Tail(a), Tail(b))

LeastName(listing) ==
  CHOOSE v \in listing : \A w \in listing : w = v \/ LexLess(v, w)

\* tool_paths.sort(); tool_paths.reverse(); tool_paths[0]
GreatestName(listing) ==
  CHOOSE v \in listing : \A w \in listing : w = v \/ LexLess(w, v)

AfterListingUnchecked(readable, listing) == "credential"

\* read_dir(..).unwrap() on a directory that cannot be read, tool_paths[0] on
\* an empty listing: both panic
AfterListing(readable, listing) ==
  IF ~readable \/ listing = {} THEN "panic" ELSE "credential"

\* sign_android: list $ANDROID_HOME/build-tools and take the greatest name
FindBuildTools ==
  /\ pc = "sign"
  /\ \E readable \in BOOLEAN, listing \in Listings :
       /\ ~readable => listing = {}
       /\ pc' = AfterListing(readable, listing)
       /\ IF ~readable \/ listing = {}
          THEN /\ loc' = [loc EXCEPT !.panic = IF readable THEN "tool_paths[0]" ELSE "read_dir"]
               /\ log' = Append(log, Event("list_build_tools", listing,
                                           IF readable THEN "empty" ELSE "unreadable", FALSE))
          ELSE /\ loc' = [loc EXCEPT !.tools_version = GreatestName(listing)]
               /\ log' = Append(log, Event("list_build_tools", listing, "", TRUE))
  /\ UNCHANGED <<envVars, wsVars, args, runs, firstFiles, sideVars>>

PasswordReference(ks_pass) == "pass:android"

KeytoolAlways(exists) == TRUE

\* if !key_path.exists()
NeedsKeytool(exists) == ~exists

CallerPasswordIfGiven(ks_pass) == IF ks_pass # "none" THEN ks_pass ELSE "pass:android"

\* the password of the conventional keystore, as apksigner takes it; the
\* caller's ks_pass is not read on this branch
GeneratedPassword(ks_pass) == "pass:android"

\* the caller's password, as given
PasswordVerbatim(ks_pass) == ks_pass

\* The credential is the caller's, or the keystore already at the conventional path
ResolveCredential ==
  /\ pc = "credential"
  /\ IF args.ks_file # "none"
     THEN IF args.ks_pass = "none"
          THEN /\ Fail("Need keystore password")
               /\ log' = Append(log, Event("credential", args.ks_file, "none", FALSE))
          ELSE /\ loc' = [loc EXCEPT !.key_file = args.ks_file,
                                      !.key_pass = PasswordVerbatim(args.ks_pass)]
               /\ log' = Append(log, Event("credential", args.ks_file, args.ks_pass, TRUE))
               /\ pc' = "zipalign"
     ELSE /\ ~NeedsKeytool(keystore)
          /\ loc' = [loc EXCEPT !.key_file = ConventionalKeystore,
                                 !.key_pass = GeneratedPassword(args.ks_pass)]
          /\ log' = Append(log, Event("credential", ConventionalKeystore,
                                      GeneratedPassword(args.ks_pass), TRUE))
          /\ pc' = "zipalign"
  /\ UNCHANGED <<envVars, wsVars, args, runs, firstFiles, sideVars>>

\* No keystore given and none at the conventional path: keytool makes one
GenerateKeystore ==
  /\ pc = "credential"
  /\ args.ks_file = "none"
  /\ NeedsKeytool(keystore)
  /\ \E ok \in BOOLEAN :
       /\ log' = Append(log, Event("keytool", ConventionalKeystore, "android", ok))
       /\ IF ok
          THEN /\ keystore' = TRUE
               /\ loc' = [loc EXCEPT !.key_file = ConventionalKeystore,
                                      !.key_pass = GeneratedPassword(args.ks_pass)]
               /\ pc' = "zipalign"
          ELSE /\ Fail("keytool")
               /\ UNCHANGED keystore
  /\ UNCHANGED <<envVars, copied, files, javaFiles, jniSrc, jniSDL, jniLibs, icons,
                 args, runs, firstFiles, sideVars>>

AfterZipalignAlways(ok) == "apksigner"

\* assert!(... .success()) after zipalign
AfterZipalign(ok) == IF ok THEN "apksigner" ELSE "panic"

RunZipalign ==
  /\ pc = "zipalign"
  /\ \E ok \in BOOLEAN :
       /\ log' = Append(log, ToolEvent("zipalign", loc.tools_version,
                                       "app-release-unsigned.apk",
                                       "app-release-unsigned-aligned.apk", ok))
       /\ pc' = AfterZipalign(ok)
       /\ loc' = IF AfterZipalign(ok) = "panic" THEN [loc EXCEPT !.panic = "zipalign"] ELSE loc
  /\ UNCHANGED <<envVars, copied, files, javaFiles, jniSrc, jniSDL, jniLibs, icons,
                 keystore, args, runs, firstFiles, sideVars>>

RunApksigner ==
  /\ pc = "apksigner"
  /\ \E ok \in BOOLEAN :
       /\ log' = Append(log, ToolEvent("apksigner", loc.tools_version,
                                       loc.key_file, loc.key_pass, ok))
       /\ IF ok
          THEN /\ pc' = "done"
               /\ UNCHANGED loc
          ELSE Fail("apksigner")
  /\ UNCHANGED <<envVars, copied, files, javaFiles, jniSrc, jniSDL, jniLibs, icons,
                 keystore, args, runs, firstFiles, sideVars>>

----------------------------------------------------------------------------
(* The pipeline on one workspace *)

NoParts ==
  [pre |-> <<>>, open |-> <<>>, body |-> <<>>, close |-> <<>>, post |-> <<>>,
   oneRoot |-> FALSE, plainOpen |-> FALSE]
ManifestIdle ==
  /\ mdoc = <<>>
  /\ mparts = NoParts
  /\ mhist = <<>>
  /\ mops = 0

SdlIdle == sdl = [pc |-> "idle", targets |-> <<>>, profile |-> "Debug", i |-> 0,
                  log |-> <<>>, deps |-> EmptyFn]

PipelineIdle ==
  /\ copied = FALSE
  /\ files = NoFiles
  /\ javaFiles = EmptyFn
  /\ jniSrc = FALSE
  /\ jniSDL = FALSE
  /\ jniLibs = EmptyFn
  /\ icons = [b \in {Buckets[n] : n \in 1..Len(Buckets)} |-> "none"]
  /\ keystore = FALSE
  /\ pc = "idle"
  /\ args = NoCall
  /\ loc = NoLocals
  /\ log = <<>>
  /\ runs = 0
  /\ firstFiles = [set |-> FALSE, run |-> 0, files |-> NoFiles]

Init ==
  /\ meta \in MetaDocs
  /\ template \in Templates
  /\ PipelineIdle
  /\ ManifestIdle
  /\ SdlIdle

Next ==
  \/ BuildAndroidProject
  \/ ResolveIdentity
  \/ CopyTemplate
  \/ WriteMainActivity
  \/ ChangeManifest
  \/ ChangeGradle
  \/ ChangeStrings
  \/ AddPermission
  \/ RemoveCSources
  \/ LinkSDL
  \/ PlaceArtifact
  \/ CopyIcon
  \/ RunGradle
  \/ FindBuildTools
  \/ ResolveCredential
  \/ GenerateKeystore
  \/ RunZipalign
  \/ RunApksigner

Spec == Init /\ [][Next]_vars

----------------------------------------------------------------------------
(* The manifest pattern and add_uses_permission_entry on generated manifests *)

Pres   == {<<>>, <<"<?xml?", GT, LF>>}
\* an opening tag on one line, one over several lines, one with a ">" in an
\* attribute value, one never ended, none
Opens  ==
  {<<LM, GT>>, <<LM, " a", LF, " b", GT>>, <<LM, " a=\"", GT, "\"", GT>>, <<LM>>, <<>>}
Closes == {<<LCM, GT>>, <<>>}
Posts  == {<<>>, <<LF>>}
\* what a body is made of: text, an element, a permission entry, and a second
\* closing or opening root tag
Items  ==
  {<<LF, "<application", GT>>, PermissionEntry(<<"n">>), <<LCM, GT>>, <<LM, GT>>}
PermNames == {<<"n">>, <<"N">>, <<"c">>}
Texts  == {<<"t", LF>>, <<LCM, GT>>}

\* the bodies of n items
RECURSIVE BodiesOf(_)
BodiesOf(n) ==
  IF n = 0 THEN {<<>>} ELSE {b \o it : b \in BodiesOf(n - 1), it \in Items}

HasRootTag(s) == \E i \in 1..Len(s) : s[i] \in {LM, LCM}

\* the opening tag has no ">" before the one that ends it
PlainOpen(open) == \A i \in 1..(Len(open) - 1) : open[i] # GT

\* One root element: an ended opening tag, a closing tag, and no other
\* "<manifest" or "</manifest" anywhere
OneRoot(pre, open, body, close, post) ==
  /\ Len(open) >= 2 /\ open[1] = LM /\ open[Len(open)] = GT
  /\ close # <<>>
  /\ ~HasRootTag(pre) /\ ~HasRootTag(body) /\ ~HasRootTag(post)

ManifestInit ==
  /\ \E n \in 0..MaxSize :
     \E pre \in Pres, open \in Opens, body \in BodiesOf(n), close \in Closes, post \in Posts :
       /\ mops = n
       /\ mdoc = pre \o open \o body \o close \o post
       /\ mparts = [pre |-> pre, open |-> open, body |-> body, close |-> close,
                    post |-> post, oneRoot |-> OneRoot(pre, open, body, close, post),
                    plainOpen |-> PlainOpen(open)]
  /\ mhist = <<>>

\* add_uses_permission_entry on the document
MAddPermission ==
  /\ mops < MaxSize
  /\ \E permission \in PermNames :
       LET r == add_uses_permission_entry(mdoc, permission)
       IN  /\ mdoc' = r.doc
           /\ mhist' = Append(mhist, [op |-> "add", text |-> permission, before |-> mdoc,
                                       fatal |-> r.fatal, wrote |-> r.wrote])
           /\ mparts' = IF r.wrote
                        THEN [mparts EXCEPT !.body = @ \o PermissionEntry(permission)]
                        ELSE mparts
  /\ mops' = mops + 1
  /\ UNCHANGED <<envVars, wsVars, callVars, sdl>>

\* test::manifest_regex: insert a text at the end of the capture
MInsertText ==
  /\ mops < MaxSize
  /\ ManifestCapture(mdoc).found
  /\ \E text \in Texts :
       /\ mdoc' = insert_str(mdoc, ManifestCapture(mdoc).to, text)
       /\ mhist' = Append(mhist, [op |-> "insert", text |-> text, before |-> mdoc,
                                   fatal |-> FALSE, wrote |-> TRUE])
       /\ mparts' = [mparts EXCEPT !.body = @ \o text]
  /\ mops' = mops + 1
  /\ UNCHANGED <<envVars, wsVars, callVars, sdl>>

DefaultMeta ==
  [package_name |-> None(<<>>), title |-> None(<<>>), icon |-> None(""),
   permissions |-> None(<<>>)]
SDLTemplate == [manifest |-> SDLManifest, gradle |-> SDLGradle, strings |-> SDLStrings]

InitManifest ==
  /\ meta = DefaultMeta
  /\ template = SDLTemplate
  /\ PipelineIdle
  /\ ManifestInit
  /\ SdlIdle

NextManifest == MAddPermission \/ MInsertText

SpecManifest == InitManifest /\ [][NextManifest]_vars

----------------------------------------------------------------------------
(* build_sdl_for_android *)

AllTargetIds == TableTargets \cup OtherTargets

RECURSIVE VecsUpTo(_)
VecsUpTo(n) ==
  IF n = 0 THEN {<<>>}
  ELSE VecsUpTo(n - 1) \cup {Append(v, t) : v \in VecsUpTo(n - 1), t \in AllTargetIds}

SdlLog(op, target, name, ok) == [op |-> op, target |-> target, name |-> name, ok |-> ok]

\* target/<rust_name>/<profile>/deps
DepsDir(rust_name, profile) == <<rust_name, profile>>

BuildSdlForAndroid ==
  /\ sdl.pc = "idle"
  /\ \E targets \in VecsUpTo(MaxTargets), profile \in Profiles :
       sdl' = [sdl EXCEPT !.pc = "ndk-build", !.targets = targets, !.profile = profile]
  /\ UNCHANGED <<envVars, wsVars, callVars, mdoc, mparts, mhist, mops>>

\* where the loop stands after i targets
AfterStaging(i, targets) == IF i = Len(targets) THEN "done" ELSE "stage"

AfterNdkBuildUnchecked(ok, targets) == AfterStaging(0, targets)

\* assert!(... .success()) after ndk-build, then the loop over the targets
AfterNdkBuild(ok, targets) == IF ok THEN AfterStaging(0, targets) ELSE "panic"

RunNdkBuild ==
  /\ sdl.pc = "ndk-build"
  /\ \E ok \in BOOLEAN :
       sdl' = [sdl EXCEPT !.log = Append(@, SdlLog("ndk-build", "", "", ok)),
                          !.pc = AfterNdkBuild(ok, sdl.targets)]
  /\ UNCHANGED <<envVars, wsVars, callVars, mdoc, mparts, mhist, mops>>

\* One turn of the staging loop: the name, the deps directory, the copy of
\* $SDL/libs/<name>/libSDL2.so
StageSdl ==
  /\ sdl.pc = "stage"
  /\ LET rust_name == sdl.targets[sdl.i + 1]
         android_name == get_target_android_name(rust_name)
         dir == DepsDir(rust_name, sdl.profile)
     IN  IF android_name = Panic
         THEN sdl' = [sdl EXCEPT !.log = Append(@, SdlLog("map_target", rust_name, Panic, FALSE)),
                                 !.pc = "panic"]
         ELSE \/ \E ok \in BOOLEAN :
                   sdl' = [sdl EXCEPT
                             !.log = Append(@, SdlLog("copy", rust_name, android_name, ok)),
                             !.deps = IF ok THEN (dir :> android_name) @@ @
                                      ELSE IF dir \in DOMAIN @ THEN @ ELSE (dir :> "") @@ @,
                             !.i = IF ok THEN @ + 1 ELSE @,
                             !.pc = IF ok THEN AfterStaging(sdl.i + 1, sdl.targets)
                                    ELSE "panic"]
              \* create_dir_all fails: "Unable to create target dir"
              \/ /\ dir \notin DOMAIN sdl.deps
                 /\ sdl' = [sdl EXCEPT
                              !.log = Append(@, SdlLog("create_dir", rust_name, android_name,
                                                       FALSE)),
                              !.pc = "panic"]
  /\ UNCHANGED <<envVars, wsVars, callVars, mdoc, mparts, mhist, mops>>

InitSdl ==
  /\ meta = DefaultMeta
  /\ template = SDLTemplate
  /\ PipelineIdle
  /\ ManifestIdle
  /\ SdlIdle

NextSdl == BuildSdlForAndroid \/ RunNdkBuild \/ StageSdl

SpecSdl == InitSdl /\ [][NextSdl]_vars

----------------------------------------------------------------------------
(* Properties of the pipeline *)

LogIdx(op) == {i \in 1..Len(log) : log[i].op = op}
Did(op) == LogIdx(op) # {}
LastIs(op, ok) == Len(log) > 0 /\ log[Len(log)].op = op /\ log[Len(log)].ok = ok

SigningOps    == {"list_build_tools", "credential", "keytool", "zipalign", "apksigner"}
ExternalTools == {"gradlew", "keytool", "zipalign", "apksigner"}
MutationOps   ==
  {"copy_template", "write_main", "change_file", "add_permission", "remove_src",
   "symlink", "place", "icon"}

BuiltBefore(i) ==
  \E g \in 1..(i - 1) :
    log[g].op = "gradlew" /\ log[g].a = "assembleRelease" /\ log[g].ok

\* C1: a release call with no keystore given: zipalign and apksigner run only
\* after gradlew assembleRelease has exited with status zero, zipalign before
\* apksigner; and when the call completes, each has run exactly once and the
\* keystore is at the conventional path, made by keytool exactly when it was
\* not there before.
C1_ReleaseSignsOnceAfterBuild ==
  (args.profile = "Release" /\ args.ks_file = "none") =>
    /\ \A i \in LogIdx("zipalign") \cup LogIdx("apksigner") \cup LogIdx("keytool") :
         BuiltBefore(i)
    /\ \A i \in LogIdx("apksigner") : \E z \in 1..(i - 1) : log[z].op = "zipalign"
    /\ pc = "done" =>
         /\ keystore
         /\ Cardinality(LogIdx("zipalign")) = 1
         /\ Cardinality(LogIdx("apksigner")) = 1
         /\ loc.key_file = ConventionalKeystore
         /\ IF loc.keystoreBefore THEN ~Did("keytool")
            ELSE /\ Cardinality(LogIdx("keytool")) = 1
                 /\ \A k \in LogIdx("keytool") : \A z \in LogIdx("zipalign") : k < z

C1_Witness ==
  /\ pc = "done" /\ args.profile = "Release" /\ args.ks_file = "none"
  /\ ~loc.keystoreBefore /\ Did("keytool") /\ LastIs("apksigner", TRUE) /\ keystore

\* C2: in a debug call gradlew is given assembleDebug, and no step of the
\* signing pipeline ever happens (no listing of build-tools, no credential,
\* keytool, zipalign or apksigner), whatever keystore options were given.
C2_DebugNeverSigns ==
  args.profile = "Debug" =>
    /\ \A i \in 1..Len(log) : log[i].op \notin SigningOps
    /\ \A i \in LogIdx("gradlew") : log[i].a = "assembleDebug"
    /\ loc.tools_version = NoVersion
    /\ pc \notin {"sign", "credential", "zipalign", "apksigner"}
    /\ pc = "done" => Cardinality(LogIdx("gradlew")) = 1

C2_Witness ==
  /\ pc = "done" /\ args.profile = "Debug"
  /\ args.ks_file # "none" /\ args.ks_pass # "none"
  /\ LastIs("gradlew", TRUE) /\ log[Len(log)].a = "assembleDebug"

\* C3 (as claimed): when the call fails on a target outside the mapping table,
\* nothing in the workspace has been written by the call: no template copy, no
\* entry-point file, no rewritten project file, no placed artifact.
C3_FailsBeforeAnyMutation ==
  (pc = "panic" /\ loc.panic = "Unknown target") =>
    \A i \in 1..Len(log) : log[i].op \notin MutationOps

\* C4: an external process that exits non-zero is the last thing the call
\* does, and the call ends failed; and no tool is invoked twice in a call.
C4_FailedToolEndsTheCall ==
  /\ \A i \in 1..Len(log) :
       (log[i].op \in ExternalTools /\ ~log[i].ok) => (i = Len(log) /\ pc = "panic")
  /\ \A t \in ExternalTools : Cardinality(LogIdx(t)) <= 1

C4_Witness ==
  /\ pc = "panic" /\ LastIs("zipalign", FALSE)
  /\ \E k \in LogIdx("keytool") : log[k].ok

Count(text, sub) == Cardinality(Occurrences(text, sub))

\* C6: a call that templates a workspace an earlier call has templated, the
\* metadata being the same, leaves the manifest, build.gradle and strings.xml
\* as the earlier call left them, with each configured permission entered once.
C6_RetemplatingKeepsFiles ==
  (firstFiles.set /\ firstFiles.run < runs /\ Did("remove_src")) =>
    /\ files = firstFiles.files
    /\ \A n \in 1..Len(Permissions(meta)) :
         Count(CaptureText(files.manifest), PermissionEntry(Permissions(meta)[n])) = 1

C6_Witness ==
  /\ runs = 2 /\ firstFiles.set /\ firstFiles.run = 1 /\ Did("remove_src")
  /\ meta.package_name = Some(<<"org", DOT, "libsdl", DOT, "app", DOT, "x">>)
  /\ meta.title.some /\ Permissions(meta) # <<>>
  /\ files = firstFiles.files
  /\ Contains(files.manifest, <<"org", DOT, "libsdl", DOT, "app", DOT, "x", "\"">>)

\* C7: with a keystore path given, keytool is never invoked; without a password
\* the call fails with neither zipalign nor apksigner invoked; with a password
\* apksigner gets the given path and the given password as they are.
C7_GivenKeystoreUsedVerbatim ==
  args.ks_file # "none" =>
    /\ ~Did("keytool")
    /\ args.ks_pass = "none" =>
         /\ ~Did("zipalign") /\ ~Did("apksigner")
         /\ pc \notin {"zipalign", "apksigner"}
         /\ Did("credential") => pc = "panic"
         /\ pc = "done" => args.profile = "Debug"
    /\ args.ks_pass # "none" =>
         \A i \in LogIdx("apksigner") : log[i].a = args.ks_file /\ log[i].b = args.ks_pass

C7_Witness ==
  /\ pc = "done" /\ args.ks_file = "my.jks" /\ args.ks_pass = "pass:secret"
  /\ LastIs("apksigner", TRUE)
  /\ log[Len(log)].a = "my.jks" /\ log[Len(log)].b = "pass:secret"

MappedNames(targets) == {get_target_android_name(t) : t \in targets}
AllPlaced ==
  Cardinality({i \in LogIdx("place") : log[i].ok}) = Cardinality(args.targets)

\* C10 (as claimed): once every artifact of an all-valid Target Artifact Set of
\* N >= 1 entries is placed, jniLibs holds exactly N directories, each with
\* the bytes of its target's artifact.
C10_ExactlyNDirectories ==
  (args.targets # {} /\ args.targets \subseteq TableTargets /\ AllPlaced) =>
    /\ Cardinality(DOMAIN jniLibs) = Cardinality(args.targets)
    /\ \A t \in args.targets :
         /\ get_target_android_name(t) \in DOMAIN jniLibs
         /\ jniLibs[get_target_android_name(t)] = Artifact(t)

\* C10 (amended): every artifact placed so far is in its own target's directory
\* with its bytes; once all N are placed, the N directories of the targets are
\* distinct and hold the targets' artifacts, and any other directory of jniLibs
\* was there before the call and is as it was (so there are exactly N when the
\* call found no directory of another architecture).
C10_PlacedBesideEarlier ==
  /\ \A i \in LogIdx("place") :
       log[i].ok => (log[i].b \in DOMAIN jniLibs /\ jniLibs[log[i].b] = Artifact(log[i].a))
  /\ (args.targets \subseteq TableTargets /\ AllPlaced) =>
       /\ Cardinality(MappedNames(args.targets)) = Cardinality(args.targets)
       /\ \A t \in args.targets :
            /\ get_target_android_name(t) \in DOMAIN jniLibs
            /\ jniLibs[get_target_android_name(t)] = Artifact(t)
       /\ DOMAIN jniLibs = MappedNames(args.targets) \cup DOMAIN loc.libsBefore
       /\ \A d \in DOMAIN jniLibs \ MappedNames(args.targets) :
            jniLibs[d] = loc.libsBefore[d]
       /\ DOMAIN loc.libsBefore \subseteq MappedNames(args.targets) =>
            Cardinality(DOMAIN jniLibs) = Cardinality(args.targets)

C10_Witness ==
  /\ runs = 2 /\ AllPlaced /\ Cardinality(args.targets) = 2
  /\ Cardinality(DOMAIN loc.libsBefore) = 1
  /\ Cardinality(DOMAIN jniLibs) = 2
  /\ \A d \in DOMAIN jniLibs : jniLibs[d].build = 2

----------------------------------------------------------------------------
(* Properties of the manifest functions *)

MLast == mhist[Len(mhist)]
SameUpper(p, q) == to_uppercase(p) = to_uppercase(q)

\* C5 (as claimed): on any manifest the pattern matches, inserting a permission
\* again, under any spelling of its name, changes nothing, and the content then
\* holds its entry exactly once.
C5_ExactlyOneEntry ==
  \A p \in PermNames :
    LET once == add_uses_permission_entry(mdoc, p)
    IN  ~once.fatal =>
          /\ \A q \in PermNames :
               SameUpper(p, q) => add_uses_permission_entry(once.doc, q).doc = once.doc
          /\ Count(CaptureText(once.doc), PermissionEntry(p)) = 1

\* C5 (amended): inserting again, under any spelling, changes nothing and
\* writes nothing; the content then holds the entry, exactly once when it held
\* it at most once before the first insertion, and as often as before otherwise.
C5_InsertionIdempotent ==
  /\ \A p \in PermNames :
       LET once == add_uses_permission_entry(mdoc, p)
           had == Count(CaptureText(mdoc), PermissionEntry(p))
       IN  ~once.fatal =>
             /\ \A q \in PermNames :
                  SameUpper(p, q) =>
                    LET twice == add_uses_permission_entry(once.doc, q)
                    IN  twice.doc = once.doc /\ ~twice.wrote /\ ~twice.fatal
             /\ Count(CaptureText(once.doc), PermissionEntry(p)) = IF had = 0 THEN 1 ELSE had
  /\ \A n \in 2..Len(mhist) :
       (/\ mhist[n].op = "add" /\ mhist[n - 1].op = "add"
        /\ ~mhist[n - 1].fatal
        /\ SameUpper(mhist[n].text, mhist[n - 1].text))
       => (~mhist[n].wrote /\ ~mhist[n].fatal)

C5_Witness ==
  /\ Len(mhist) = 2
  /\ mhist[1].op = "add" /\ mhist[1].text = <<"n">> /\ mhist[1].wrote
  /\ mhist[2].op = "add" /\ mhist[2].text = <<"N">> /\ ~mhist[2].wrote /\ ~mhist[2].fatal
  /\ mdoc = mhist[2].before
  /\ Count(CaptureText(mdoc), PermissionEntry(<<"n">>)) = 1

\* C9 (as claimed): on a document with one manifest root element, whose opening
\* tag may run over several lines, the pattern captures the text between the
\* end of the opening tag and "</manifest>"; and after a text is inserted at
\* the end of the capture, the capture is the earlier capture followed by it.
C9_CapturesRootContent ==
  mparts.oneRoot =>
    /\ ManifestCapture(mdoc).found
    /\ CaptureText(mdoc) = mparts.body
    /\ (Len(mhist) > 0 /\ MLast.op = "insert") =>
         CaptureText(mdoc) = CaptureText(MLast.before) \o MLast.text

\* C9 (amended): the same, for a root element whose opening tag has no ">"
\* before the one that ends it; whatever the opening tag, the capture after an
\* insertion at its end is the earlier capture followed by the inserted text.
C9_CaptureIsContent ==
  /\ (Len(mhist) > 0 /\ MLast.op = "insert") =>
       CaptureText(mdoc) = CaptureText(MLast.before) \o MLast.text
  /\ (mparts.oneRoot /\ mparts.plainOpen) =>
       /\ ManifestCapture(mdoc).found
       /\ CaptureText(mdoc) = mparts.body

C9_Witness ==
  /\ mparts.oneRoot /\ mparts.plainOpen /\ mparts.open = <<LM, " a", LF, " b", GT>>
  /\ Len(mhist) = 1 /\ MLast.op = "insert" /\ MLast.text = <<LCM, GT>>
  /\ Contains(MLast.before, <<LF, "<application", GT>>)
  /\ CaptureText(mdoc) = CaptureText(MLast.before) \o <<LCM, GT>>

----------------------------------------------------------------------------
(* Properties of the Architecture Name Mapper *)

ArchNames == {"arm64-v8a", "armeabi-v7a", "x86", "x86_64"}

\* C8: the four targets of the table map to arm64-v8a, armeabi-v7a, x86 and
\* x86_64, one to one; any other identifier is fatal: the call that met it ends
\* there, and no deps directory is ever staged under a name made up for it.
C8_MapperTable ==
  /\ get_target_android_name("aarch64-linux-android") = "arm64-v8a"
  /\ get_target_android_name("armv7-linux-androideabi") = "armeabi-v7a"
  /\ get_target_android_name("i686-linux-android") = "x86"
  /\ get_target_android_name("x86_64-linux-android") = "x86_64"
  /\ \A t, u \in TableTargets :
       t # u => get_target_android_name(t) # get_target_android_name(u)
  /\ \A t \in OtherTargets : get_target_android_name(t) = Panic
  /\ \A i \in 1..Len(sdl.log) :
       LET e == sdl.log[i]
       IN  e.op # "ndk-build" =>
             IF e.target \in TableTargets
             THEN e.op \in {"copy", "create_dir"} /\ e.name \in ArchNames
             ELSE e.op = "map_target" /\ e.name = Panic /\ i = Len(sdl.log) /\ sdl.pc = "panic"
  /\ \A d \in DOMAIN sdl.deps : d[1] \in TableTargets

C8_Witness ==
  /\ sdl.pc = "panic" /\ Len(sdl.log) = 3
  /\ sdl.log[2] = SdlLog("copy", "i686-linux-android", "x86", TRUE)
  /\ sdl.log[3] = SdlLog("map_target", "x86_64", Panic, FALSE)
  /\ DOMAIN sdl.deps = {DepsDir("i686-linux-android", sdl.profile)}

----------------------------------------------------------------------------
(* Properties of the signing pipeline *)

\* C11: the build-tools version of a call is a name of the listing that no
\* other name of it follows in byte order (30.0.3 of 29.0.2, 30.0.3, 28.0.0;
\* 9.0.0 of 30.0.3, 9.0.0), and zipalign and apksigner of that call are both
\* run from the directory of that one version.
C11_GreatestNameForBothTools ==
  /\ GreatestName({V29, V30, V28}) = V30
  /\ \A i \in LogIdx("list_build_tools") :
       log[i].ok =>
         /\ \A j \in (i + 1)..Len(log) :
              log[j].op \in {"zipalign", "apksigner"} =>
                /\ log[j].tool \in log[i].a
                /\ \A w \in log[i].a : w = log[j].tool \/ LexLess(w, log[j].tool)
         /\ \A j, k \in (i + 1)..Len(log) :
              (log[j].op = "zipalign" /\ log[k].op = "apksigner") => log[j].tool = log[k].tool
  /\ \A j \in LogIdx("zipalign") \cup LogIdx("apksigner") :
       \E i \in 1..(j - 1) : log[i].op = "list_build_tools" /\ log[i].ok

C11_Witness ==
  /\ pc = "done" /\ LastIs("apksigner", TRUE)
  /\ \E i \in LogIdx("list_build_tools") : log[i].a = {V30, V9}
  /\ log[Len(log)].tool = V9
  /\ \E z \in LogIdx("zipalign") : log[z].tool = V9

----------------------------------------------------------------------------
(* Properties of templating *)

IconEvents == {i \in 1..Len(log) : log[i].op = "icon"}
NthIcon(n) == CHOOSE i \in IconEvents : Cardinality({j \in IconEvents : j <= i}) = n

\* C12: with an icon configured, the icon copies of a call are attempted for
\* m, h, xh, xxh, xxxh in that order whatever the outcome of the earlier ones:
\* a failed copy never ends the call, leaves that bucket's file as it was, and
\* gradlew is invoked only after all five were attempted.
C12_IconFailureGoesOn ==
  /\ Cardinality(IconEvents) = loc.bucket
  /\ \A n \in 1..Cardinality(IconEvents) : log[NthIcon(n)].a = Buckets[n]
  /\ \A i \in IconEvents :
       /\ loc.app_icon.some
       /\ ~log[i].ok => (loc.panic # "icon" /\ (i = Len(log) => pc = "artifacts"))
       /\ log[i].ok => icons[log[i].a] = "app"
  /\ \A g \in LogIdx("gradlew") :
       loc.app_icon.some =>
         /\ Cardinality(IconEvents) = Len(Buckets)
         /\ \A i \in IconEvents : i < g

C12_Witness ==
  /\ pc = "done" /\ LastIs("gradlew", TRUE) /\ Cardinality(IconEvents) = 5
  /\ ~log[NthIcon(2)].ok /\ log[NthIcon(3)].ok /\ log[NthIcon(5)].ok
  /\ icons["h"] = "template" /\ icons["xxxh"] = "app"

ManifestChanged == \E i \in LogIdx("change_file") : log[i].a = "manifest"

\* MainActivity.java is under the id with each "." made a "/"
EntryPointUnder(appid) ==
  \E path \in DOMAIN javaFiles :
    /\ Len(path) = Len(appid)
    /\ \A k \in 1..Len(appid) : path[k] = IF appid[k] = DOT THEN SLASH ELSE appid[k]
    /\ Contains(javaFiles[path], <<"package ">> \o appid \o <<";">>)

\* C13 (as claimed): once the manifest is rewritten for an application id other
\* than org.libsdl.app, MainActivity.java is under the id's path, the manifest
\* holds the id, and the manifest holds org.libsdl.app nowhere.
C13_NoDefaultNamespaceLeft ==
  (ManifestChanged /\ loc.appid # DefaultAppId) =>
    /\ EntryPointUnder(loc.appid)
    /\ Contains(files.manifest, loc.appid)
    /\ ~Contains(files.manifest, DefaultAppId)

\* C13 (amended): ... and the manifest holds org.libsdl.app only inside an
\* occurrence of the id (nowhere, when the id does not contain it).
C13_DefaultNamespaceOnlyInId ==
  (ManifestChanged /\ loc.appid # DefaultAppId) =>
    /\ EntryPointUnder(loc.appid)
    /\ Contains(files.manifest, loc.appid)
    /\ ~Contains(files.manifest, <<"SDLActivity">>)
    /\ \A i \in Occurrences(files.manifest, DefaultAppId) :
         \E j \in Occurrences(files.manifest, loc.appid) :
           j <= i /\ i + Len(DefaultAppId) <= j + Len(loc.appid)
    /\ ~Contains(loc.appid, DefaultAppId) => ~Contains(files.manifest, DefaultAppId)

C13_Witness ==
  /\ ManifestChanged /\ Did("remove_src")
  /\ loc.appid = <<"com", DOT, "example", DOT, "app">>
  /\ <<"com", SLASH, "example", SLASH, "app">> \in DOMAIN javaFiles
  /\ Contains(files.manifest, <<" package=\"", "com", DOT, "example", DOT, "app", "\"">>)
  /\ ~Contains(files.manifest, DefaultAppId)

Repeat(op, n) == [i \in 1..n |-> op]

\* the stages of templating in the order of the code, as the names of the log
ExpectedStages ==
  <<"copy_template", "write_main", "change_file", "change_file", "change_file">>
    \o Repeat("add_permission", Len(Permissions(meta)))
    \o <<"remove_src">>
    \o (IF loc.sdlBefore THEN <<>> ELSE <<"symlink">>)
    \o Repeat("place", Cardinality(args.targets))
    \o (IF meta.icon.some THEN Repeat("icon", Len(Buckets)) ELSE <<>>)

\* C14: the log of a call follows the one order of the stages: at every moment
\* it is a beginning of: template copy, entry point, the three substitutions
\* (manifest, build.gradle, strings.xml), the permissions, the removal of
\* jni/src, the link, the artifacts, the icons; gradlew is invoked at most once
\* and only with all of those behind it, each stage having run once.
C14_StagesInOrder ==
  /\ \A i \in 1..Len(log) :
       (i <= Len(ExpectedStages) /\ log[i].op # "map_target") =>
         log[i].op = ExpectedStages[i]
  /\ \A i, j \in LogIdx("change_file") :
       i < j => <<log[i].a, log[j].a>> \in
                  {<<"manifest", "gradle">>, <<"manifest", "strings">>, <<"gradle", "strings">>}
  /\ Cardinality(LogIdx("gradlew")) <= 1
  /\ Cardinality(LogIdx("copy_template")) <= 1
  /\ \A g \in LogIdx("gradlew") :
       /\ g = Len(ExpectedStages) + 1
       /\ \A i \in 1..(g - 1) : log[i].ok \/ log[i].op = "icon"
       /\ \A i \in (g + 1)..Len(log) : log[i].op \in SigningOps

C14_Witness ==
  /\ pc = "done" /\ LastIs("gradlew", TRUE)
  /\ Len(log) = 5 + 2 + 1 + 1 + 2 + 5 + 1
  /\ Len(Permissions(meta)) = 2 /\ Cardinality(args.targets) = 2 /\ meta.icon.some
  /\ Did("symlink")

----------------------------------------------------------------------------
(* The effect of add_uses_permission_entry on the manifest *)

EntryFor(permission) == <<UP>> \o to_uppercase(permission) \o <<QS, GT>>

\* the document with the text put right before its last "</manifest>"
BeforeLastClose(doc, text) ==
  {SubSeq(doc, 1, k - 1) \o text \o SubSeq(doc, k, Len(doc)) :
     k \in {c \in 1..Len(doc) :
              ClosesAt(doc, c) /\ \A d \in (c + 1)..Len(doc) : ~ClosesAt(doc, d)}}

\* C15: an insertion leaves the manifest as it was but for the entry, with the
\* name in upper case, right before the closing "</manifest>"; with the entry
\* already in the content the manifest is left as it was; with no match of the
\* pattern the call is fatal and the manifest is left as it was.
C15_InsertionFrame ==
  (Len(mhist) > 0 /\ MLast.op = "add") =>
    LET entry == EntryFor(MLast.text)
        found == ManifestCapture(MLast.before).found
    IN  /\ MLast.fatal <=> ~found
        /\ MLast.fatal => (mdoc = MLast.before /\ ~MLast.wrote)
        /\ (found /\ Contains(CaptureText(MLast.before), entry)) =>
             (mdoc = MLast.before /\ ~MLast.wrote)
        /\ (found /\ ~Contains(CaptureText(MLast.before), entry)) =>
             /\ MLast.wrote
             /\ mdoc \in BeforeLastClose(MLast.before, entry)
             /\ Len(mdoc) = Len(MLast.before) + Len(entry)

C15_Witness ==
  /\ Len(mhist) = 1 /\ MLast.op = "add" /\ MLast.text = <<"c">> /\ MLast.wrote
  /\ mparts.oneRoot /\ mparts.post = <<LF>>
  /\ Contains(MLast.before, EntryFor(<<"n">>))
  /\ mdoc = mparts.pre \o mparts.open \o mparts.body \o mparts.close \o mparts.post
  /\ Contains(mdoc, <<UP, "C", QS, GT, LCM, GT, LF>>)

----------------------------------------------------------------------------
(* Properties of build_sdl_for_android *)

\* C18: ndk-build is run once, first; when it fails nothing is staged; when it
\* succeeds the targets are staged in the order given, each into its own deps
\* directory under the mapped name, and the first failure ends the call.
C18_NdkBuildThenStaging ==
  /\ \A i \in 1..Len(sdl.log) : (sdl.log[i].op = "ndk-build") <=> (i = 1)
  /\ sdl.pc \in {"stage", "done"} => (Len(sdl.log) >= 1 /\ sdl.log[1].ok)
  /\ (Len(sdl.log) >= 1 /\ ~sdl.log[1].ok) =>
       (Len(sdl.log) = 1 /\ sdl.pc = "panic" /\ DOMAIN sdl.deps = {})
  /\ \A i \in 2..Len(sdl.log) :
       LET e == sdl.log[i]
       IN  /\ sdl.log[1].ok
           /\ e.target = sdl.targets[i - 1]
           /\ ~e.ok => (i = Len(sdl.log) /\ sdl.pc = "panic")
           /\ (e.op = "copy" /\ e.ok) =>
                /\ DepsDir(e.target, sdl.profile) \in DOMAIN sdl.deps
                /\ sdl.deps[DepsDir(e.target, sdl.profile)] = e.name
  /\ DOMAIN sdl.deps \subseteq
       {DepsDir(sdl.log[i].target, sdl.profile) :
          i \in {j \in 2..Len(sdl.log) : sdl.log[j].op = "copy"}}
  /\ sdl.pc = "done" =>
       /\ Len(sdl.log) = 1 + Len(sdl.targets)
       /\ \A i \in 1..Len(sdl.log) : sdl.log[i].ok

C18_Witness ==
  /\ sdl.pc = "panic" /\ Len(sdl.targets) = 2 /\ Len(sdl.log) = 3
  /\ sdl.log[1].ok
  /\ sdl.log[2] = SdlLog("copy", "i686-linux-android", "x86", TRUE)
  /\ sdl.log[3] = SdlLog("copy", "aarch64-linux-android", "arm64-v8a", FALSE)
  /\ sdl.deps[DepsDir("i686-linux-android", sdl.profile)] = "x86"

----------------------------------------------------------------------------
(* Properties of credential resolution and of the order of signing *)

Appended(op) == Len(log') = Len(log) + 1 /\ log'[Len(log')].op = op

\* C16: with no keystore given, keytool is invoked only when there is no file
\* at the conventional path at that moment, and the conventional keystore is
\* taken as it is only when there is one; a keystore once there stays there.
\* So after a keytool that succeeded, no later call invokes keytool again.
C16_KeytoolOnlyWhenAbsent ==
  [][/\ keystore => keystore'
     /\ Appended("keytool") =>
          (~keystore /\ args.ks_file = "none" /\ (log'[Len(log')].ok <=> keystore'))
     /\ (Appended("credential") /\ args.ks_file = "none") =>
          (keystore /\ ~(\E k \in 1..Len(log) : log[k].op = "keytool"))
     /\ (pc = "credential" /\ args.ks_file = "none" /\ pc' # pc) =>
          (Appended("keytool") <=> ~keystore)]_vars

C16_Witness ==
  /\ runs = 2 /\ pc = "done" /\ args.profile = "Release" /\ args.ks_file = "none"
  /\ loc.keystoreBefore /\ keystore /\ ~Did("keytool")
  /\ LastIs("apksigner", TRUE) /\ log[Len(log)].a = ConventionalKeystore

StageOf(op) ==
  CASE op = "list_build_tools" -> 1
    [] op \in {"credential", "keytool"} -> 2
    [] op = "zipalign" -> 3
    [] op = "apksigner" -> 4
    [] OTHER -> 0

\* C17: the signing steps of a call come one stage after the other, tool
\* discovery first, each right after the stage before it succeeded; a
\* discovery that fails (no entry, or a directory that cannot be read) ends
\* the call with no keystore made and no keytool, zipalign or apksigner; and a
\* release call is done only with the four stages behind it, all succeeded.
C17_SigningMovesForward ==
  /\ \A i \in 1..Len(log) :
       StageOf(log[i].op) >= 1 =>
         /\ i > 1
         /\ IF StageOf(log[i].op) = 1
            THEN log[i - 1].op = "gradlew" /\ log[i - 1].ok
            ELSE StageOf(log[i - 1].op) = StageOf(log[i].op) - 1 /\ log[i - 1].ok
         /\ ~log[i].ok => (i = Len(log) /\ pc = "panic")
  /\ LastIs("list_build_tools", FALSE) =>
       /\ pc = "panic"
       /\ keystore = loc.keystoreBefore
       /\ ~Did("credential") /\ ~Did("keytool") /\ ~Did("zipalign") /\ ~Did("apksigner")
  /\ pc = "credential" => LastIs("list_build_tools", TRUE)
  /\ pc = "zipalign" => (LastIs("credential", TRUE) \/ LastIs("keytool", TRUE))
  /\ pc = "apksigner" => LastIs("zipalign", TRUE)
  /\ (pc = "done" /\ args.profile = "Release") =>
       /\ LastIs("apksigner", TRUE)
       /\ Len(log) >= 5
       /\ \A n \in 1..4 :
            StageOf(log[Len(log) - 4 + n].op) = n /\ log[Len(log) - 4 + n].ok

C17_Witness ==
  /\ pc = "panic" /\ LastIs("list_build_tools", FALSE) /\ log[Len(log)].b = "unreadable"
  /\ args.ks_file = "none" /\ ~loc.keystoreBefore /\ ~keystore

\* C19: once a call has removed app/jni/src and is past the link, app/jni/src
\* is absent and app/jni/SDL is there, on a workspace templated before as on a
\* new one; the link is made only when app/jni/SDL was not there, so a call on
\* a workspace that has it neither makes it again nor fails there.
C19_SourcesGoneSdlLinked ==
  /\ (Did("remove_src") /\ pc \notin {"link", "panic"}) => (~jniSrc /\ jniSDL)
  /\ Did("gradlew") => (~jniSrc /\ jniSDL)
  /\ \A i \in LogIdx("symlink") : ~loc.sdlBefore /\ (log[i].ok => jniSDL)
  /\ Cardinality(LogIdx("symlink")) <= 1
  /\ loc.sdlBefore => (jniSDL /\ loc.panic # "symlink_dir")
  /\ (~loc.sdlBefore /\ Did("remove_src") /\ pc # "link") => Did("symlink")

C19_Witness ==
  /\ runs = 2 /\ loc.sdlBefore /\ pc = "done" /\ Did("remove_src") /\ Did("gradlew")
  /\ ~Did("symlink") /\ ~jniSrc /\ jniSDL

\* the password a "pass:<password>" reference stands for
PasswordOf(reference) ==
  CASE reference = "pass:android" -> "android"
    [] reference = "pass:secret" -> "secret"
    [] OTHER -> "none"

\* C20: with no keystore path given, apksigner is handed the conventional
\* keystore path and pass:android, the password keytool is given as the store
\* password; a password the caller gave is handed to no tool.
C20_InternalCredentialFixed ==
  args.ks_file = "none" =>
    /\ \A i \in LogIdx("apksigner") :
         /\ log[i].a = ConventionalKeystore
         /\ log[i].b = "pass:android"
         /\ \A k \in LogIdx("keytool") : log[k].b = PasswordOf(log[i].b)
    /\ \A k \in LogIdx("keytool") : log[k].a = ConventionalKeystore /\ log[k].b = "android"
    /\ \A c \in LogIdx("credential") :
         log[c].a = ConventionalKeystore /\ log[c].b = "pass:android"
    /\ pc \in {"zipalign", "apksigner"} =>
         (loc.key_file = ConventionalKeystore /\ loc.key_pass = "pass:android")
    /\ args.ks_pass # "none" =>
         \A i \in 1..Len(log) :
           log[i].op \in ExternalTools => (log[i].b # args.ks_pass /\ log[i].a # args.ks_pass)

C20_Witness ==
  /\ pc = "done" /\ args.ks_file = "none" /\ args.ks_pass = "pass:secret"
  /\ Did("keytool") /\ LastIs("apksigner", TRUE)
  /\ log[Len(log)].a = ConventionalKeystore /\ log[Len(log)].b = "pass:android"

====
